---- MODULE Spec2Model ----
(***************************************************************************)
(* A model of timey's benchmark driver (src/index.js): work-directory      *)
(* validation, the parameter grid, the serial promise chain built by       *)
(* serialize_tasks, the steps of single_run and the final output.          *)
(*                                                                         *)
(* Every action is one callback of the JavaScript event loop: the          *)
(* completion of an asynchronous operation together with the handler that  *)
(* the code attached to it.                                                *)
(***************************************************************************)
EXTENDS Integers, Sequences, FiniteSets, TLC

VARIABLES
    argv,       \* the parsed command line (main, lines 115-140)
    cpus,       \* os.cpus ().length (line 64)
    fsys,       \* the work directory: what it is and the files in it
    pc,         \* position of main's promise chain (lines 142-176)
    err,        \* the rejection travelling down main's chain
    tasks,      \* the grid points, one per task, indexed from 0 (lines 147-154)
    chain,      \* the promises built by serialize_tasks' reduce, indexed 0..n
    runs,       \* per task: the position of its single_run and what it holds
    now,        \* Date.now ()
    stdout,     \* the texts written to process.stdout by main
    outfile,    \* the texts written to the output file by main
    exitCode    \* process.exitCode

vars == <<argv, cpus, fsys, pc, err, tasks, chain, runs, now, stdout, outfile, exitCode>>

(***************************************************************************)
(* Bounds of the model.                                                    *)
(***************************************************************************)
MaxExternal == 3     \* largest --external
MaxLinkonce == 4     \* largest --linkonce
MaxIncrement == 2    \* largest --increment
MaxTasks == 4        \* largest grid swept
MaxModules == 2      \* largest --modules
MaxClock == 1        \* the clock stops here
MaxCpus == 2         \* most logical CPUs of the host

(***************************************************************************)
(* Program constants (lines 41-43).                                        *)
(***************************************************************************)
is_repo_linker == TRUE
repo_name == "repository.db"

(***************************************************************************)
(* Files.  A file of the work directory is a record: a numbered stem and   *)
(* a suffix.  Stem 0 is used for the files with a fixed name.              *)
(***************************************************************************)
File(stem, suffix) == [stem |-> stem, suffix |-> suffix]
RepoFile == File(0, "db")            \* <work_dir>/repository.db
LinkedOutput == File(0, "out")       \* <work_dir>/a.out
Notes == File(0, "txt")              \* a file no pattern of the program matches
NoFile == File(-1, "")               \* undefined, in an array of files

\* Entries with stem 9 are directories: glob reports them like files, and
\* fs.unlinkSync throws on them.
IsDirectory(f) == f.stem = 9

all_tickets_pattern == "*.o"
elf_pattern == "*.o.elf"

\* Matches with the '*.o.elf' pattern matching nothing.
MatchesNoElf(pattern, f) ==
    IF pattern = all_tickets_pattern THEN f.suffix = "o"
    ELSE pattern = repo_name /\ f = RepoFile

\* Whether a glob pattern of the program matches a file of the work directory.
Matches(pattern, f) ==
    IF pattern = all_tickets_pattern THEN f.suffix = "o"
    ELSE IF pattern = elf_pattern THEN f.suffix = "o.elf"
    ELSE pattern = repo_name /\ f = RepoFile

\* glob (pattern): the matching files, as glob reports them (sorted by name).
RECURSIVE SortByStem(_)
SortByStem(S) ==
    IF S = {} THEN <<>>
    ELSE LET f == CHOOSE x \in S : \A y \in S : x.stem <= y.stem
         IN  <<f>> \o SortByStem(S \ {f})

glob(pattern, files) == SortByStem({f \in files : Matches(pattern, f)})

Range(s) == {s[k] : k \in 1..Len(s)}

\* contents.forEach (file => fs.unlinkSync (file)): the files are deleted in
\* order; the first fs.unlinkSync that throws ends the loop.  It throws ENOENT
\* for a file that is no longer there and EISDIR for a directory.
\* Only the first file of contents is deleted.
unlink_first(files, contents) ==
    IF contents = <<>> THEN [files |-> files, error |-> "none"]
    ELSE [files |-> files \ {Head(contents)}, error |-> "none"]

RECURSIVE unlink_each(_, _)
unlink_each(files, contents) ==
    IF contents = <<>> THEN [files |-> files, error |-> "none"]
    ELSE LET file == Head(contents)
         IN  IF file \notin files THEN [files |-> files, error |-> "ENOENT"]
             ELSE IF IsDirectory(file) THEN [files |-> files, error |-> "EISDIR"]
             ELSE unlink_each(files \ {file}, Tail(contents))

(***************************************************************************)
(* Errors and promises.                                                    *)
(***************************************************************************)
NoError == [kind |-> "none", task |-> -1]
Error(kind, task) == [kind |-> kind, task |-> task]

Pending == [state |-> "pending", value |-> <<>>, err |-> NoError]
Resolved(v) == [state |-> "fulfilled", value |-> v, err |-> NoError]
Rejected(e) == [state |-> "rejected", value |-> <<>>, err |-> e]

(***************************************************************************)
(* The parameter grid (main, lines 144-154).  lomax / incr is a JavaScript *)
(* number, not an integer division: with q = lomax / incr,                 *)
(*   Math.floor (i / q)  =  floor (i * incr / lomax)                       *)
(*   (i % q + 1) * incr  =  (i - q * floor (i / q) + 1) * incr             *)
(*                       =  (i * incr) mod lomax + incr                    *)
(* which is how the two expressions are computed here, in exact            *)
(* arithmetic.                                                             *)
(***************************************************************************)
num_tasks(lomax, extmax, incr) == (lomax * extmax) \div (incr * incr)

num_external(i, lomax, incr) == (((i * incr) \div lomax) + 1) * incr

\* num_linkonce computed with the quotient where the remainder belongs.
num_linkonce_quotient(i, lomax, incr) == (((i * incr) \div lomax) + 1) * incr

num_linkonce(i, lomax, incr) == ((i * incr) % lomax) + incr

GridPoint(i, lomax, incr) ==
    [external |-> num_external(i, lomax, incr),
     linkonce |-> num_linkonce(i, lomax, incr)]

Grid(lomax, extmax, incr) ==
    [i \in 0..(num_tasks(lomax, extmax, incr) - 1) |-> GridPoint(i, lomax, incr)]

NumTasks == Cardinality(DOMAIN tasks)
TaskIds == DOMAIN tasks

(***************************************************************************)
(* Initial state: the process has parsed its command line and called       *)
(* check_work_directory, whose fs.stat is pending.                         *)
(***************************************************************************)
\* calls lists the operations single_run has started, in order; reported is
\* the error the failing operation gave; wrote is the set of files the run's
\* tools have written; link_ticks counts the ticks of the clock while the
\* linker ran.  conv, results and limit belong to async.mapLimit.  entered is
\* the contents of the directory when clean_all was called on its own.
IdleRun ==
    [pc |-> "idle", step |-> 0, contents |-> <<>>, ticket_files |-> <<>>, ld_inputs |-> <<>>,
     start |-> 0, time |-> 0, err |-> NoError,
     reported |-> NoError, calls |-> <<>>, wrote |-> {}, link_ticks |-> 0,
     conv |-> <<>>, results |-> <<>>, limit |-> 0, entered |-> {}]

InitialContents ==
    { {},
      {Notes},
      {File(7, "o"), File(7, "o.elf"), RepoFile},
      {File(7, "o"), File(8, "o"), Notes},
      {File(7, "o"), File(9, "o.elf")} }

Start ==
    /\ argv \in [external  : 1..MaxExternal,
                 linkonce  : 1..MaxLinkonce,
                 increment : 1..MaxIncrement,
                 modules   : 1..MaxModules,
                 force     : BOOLEAN,
                 output    : {"-", "results.txt"}]
    /\ num_tasks(argv.linkonce, argv.external, argv.increment) <= MaxTasks
    /\ \E kind \in {"missing", "file", "dir"} :
       \E files \in InitialContents :
          /\ (kind # "dir" => files = {})
          /\ fsys = [kind |-> kind, files |-> files]
    /\ pc = "stat"
    /\ err = NoError
    /\ tasks = <<>>
    /\ chain = <<>>
    /\ runs = <<>>
    /\ now = 0
    /\ stdout = <<>>
    /\ outfile = <<>>
    /\ exitCode = 0

\* The program as built, with the repo linker: os.cpus () is never called,
\* so one host stands for all.
Init == Start /\ cpus = 1

\* The program built with is_repo_linker = false (line 41), on any host.
InitLld == Start /\ cpus \in 1..MaxCpus

(***************************************************************************)
(* check_work_directory (lines 85-99).                                     *)
(***************************************************************************)
\* fs.stat completes; its handler (lines 87-92) checks isDirectory and
\* starts fs.readdir.
check_work_directory_stat ==
    /\ pc = "stat"
    /\ IF fsys.kind = "missing"
       THEN /\ pc' = "catch"
            /\ err' = Error("ENOENT", -1)
       ELSE IF fsys.kind # "dir"
       THEN /\ pc' = "catch"
            /\ err' = Error("not a directory", -1)
       ELSE /\ pc' = "readdir"
            /\ err' = err
    /\ UNCHANGED <<argv, cpus, fsys, tasks, chain, runs, now, stdout, outfile, exitCode>>

\* The test of line 94 with the emptiness check left out.
DirectoryAcceptedAlways(files, force) == TRUE

\* The test of line 94.
DirectoryAccepted(files, force) == ~(Cardinality(files) > 0 /\ ~force)

\* serialize_tasks (lines 108-112): reduce builds the whole chain at once,
\* from Promise.resolve ([]); no task is invoked while it is built.
serialize_tasks(n) == [k \in 0..n |-> IF k = 0 THEN Resolved(<<>>) ELSE Pending]

\* fs.readdir completes; its handler (lines 93-98) checks emptiness.
check_work_directory_readdir ==
    /\ pc = "readdir"
    /\ IF DirectoryAccepted(fsys.files, argv.force)
       THEN /\ pc' = "checked"
            /\ err' = err
       ELSE /\ pc' = "catch"
            /\ err' = Error("not empty", -1)
    /\ UNCHANGED <<argv, cpus, fsys, tasks, chain, runs, now, stdout, outfile, exitCode>>

(***************************************************************************)
(* main, lines 143-155: the handler run once check_work_directory has      *)
(* resolved.  It builds the tasks and calls serialize_tasks on them.       *)
(***************************************************************************)
main_build_tasks ==
    /\ pc = "checked"
    /\ pc' = "sweep"
    /\ tasks' = Grid(argv.linkonce, argv.external, argv.increment)
    /\ chain' = serialize_tasks(num_tasks(argv.linkonce, argv.external, argv.increment))
    /\ runs' = [i \in DOMAIN tasks' |-> IdleRun]
    /\ UNCHANGED <<argv, cpus, fsys, err, now, stdout, outfile, exitCode>>

(***************************************************************************)
(* serialize_tasks, line 110: the callbacks of the chain.                  *)
(***************************************************************************)
\* Every callback attached to the initial promise instead of the chain.
CanInvokeFromStart(i) == chain[0].state = "fulfilled"

\* promise_chain.then (cb): cb runs once promise_chain is fulfilled.
CanInvoke(i) == chain[i].state = "fulfilled"

\* [result, ...chain_results]
ChainResultsPrepended(chain_results, result) == <<result>> \o chain_results

\* [...chain_results, result]
ChainResults(chain_results, result) == Append(chain_results, result)

\* item () rejected and the failure swallowed: the results so far are kept.
ItemRejectedSwallowed(chain_results, e) == Resolved(chain_results)

\* item () rejected and the promise returned by the callback never settled.
ItemRejectedNeverSettles(chain_results, e) == Pending

\* item () rejected: the promise returned by the callback, and so the next
\* promise of the chain, is rejected with the same error.
ItemRejected(chain_results, e) == Rejected(e)

InFlight(i) == runs[i].pc \notin {"idle", "resolved", "rejected"}

CleanPatterns == <<all_tickets_pattern, elf_pattern, repo_name>>

\* The callback of line 110 runs for task i: item () calls single_run
\* (line 152), which calls clean_all, whose first glob is started (line 36).
invoke_task(i) ==
    /\ runs[i].pc = "idle"
    /\ CanInvoke(i)
    /\ runs' = [runs EXCEPT ![i].pc = "clean_glob", ![i].step = 1,
                            ![i].calls = Append(@, "clean_all")]
    /\ UNCHANGED <<argv, cpus, fsys, pc, err, tasks, chain, now, stdout, outfile, exitCode>>

RejectRun(i, kind) ==
    [runs EXCEPT ![i].pc = "rejected", ![i].err = Error(kind, i),
                 ![i].reported = Error(kind, i)]

(***************************************************************************)
(* clean_all (lines 31-39).                                                *)
(***************************************************************************)
\* glob (pattern) of line 33 completes.
clean_glob(i) ==
    /\ runs[i].pc = "clean_glob"
    /\ runs' = [runs EXCEPT ![i].pc = "clean_unlink",
                            ![i].contents = glob(CleanPatterns[runs[i].step], fsys.files)]
    /\ UNCHANGED <<argv, cpus, fsys, pc, err, tasks, chain, now, stdout, outfile, exitCode>>

\* The handler of line 34 deletes the files one by one.  A throwing
\* fs.unlinkSync leaves the files before it deleted and rejects clean_all.
\* After the last pattern the handler of line 55 starts the generator.
clean_unlink(i) ==
    /\ runs[i].pc = "clean_unlink"
    /\ LET unlinked == unlink_each(fsys.files, runs[i].contents)
           step == runs[i].step
       IN /\ fsys' = [fsys EXCEPT !.files = unlinked.files]
          /\ runs' = IF unlinked.error # "none"
                     THEN RejectRun(i, unlinked.error)
                     ELSE IF step < Len(CleanPatterns)
                     THEN [runs EXCEPT ![i].pc = "clean_glob", ![i].step = step + 1,
                                       ![i].contents = <<>>]
                     ELSE [runs EXCEPT ![i].pc = "rld_gen", ![i].contents = <<>>,
                                       ![i].calls = Append(@, "rld_gen")]
    /\ UNCHANGED <<argv, cpus, pc, err, tasks, chain, now, stdout, outfile, exitCode>>

(***************************************************************************)
(* single_run (lines 52-77).                                               *)
(***************************************************************************)
\* The ticket files the generator writes for num_modules modules.
GeneratedTickets(num_modules) == {File(m, "o") : m \in 1..num_modules}

\* r.rld_gen completes (line 55).  On success the work directory holds the
\* ticket files and the repository; the handler of line 56 starts the glob.
rld_gen_done(i) ==
    /\ runs[i].pc = "rld_gen"
    /\ \/ /\ fsys' = [fsys EXCEPT !.files = @ \cup GeneratedTickets(argv.modules) \cup {RepoFile}]
          /\ runs' = [runs EXCEPT ![i].pc = "glob",
                                  ![i].wrote = GeneratedTickets(argv.modules) \cup {RepoFile},
                                  ![i].calls = Append(@, "glob")]
       \/ \E m \in 0..(argv.modules - 1) :
             /\ fsys' = [fsys EXCEPT !.files = @ \cup GeneratedTickets(m)]
             /\ runs' = [RejectRun(i, "rld_gen") EXCEPT ![i].wrote = GeneratedTickets(m)]
    /\ UNCHANGED <<argv, cpus, pc, err, tasks, chain, now, stdout, outfile, exitCode>>

\* glob (all_tickets_pattern) of line 56 completes.
glob_tickets(i) ==
    /\ runs[i].pc = "glob"
    /\ runs' = [runs EXCEPT ![i].pc = "ticket_files",
                            ![i].ticket_files = glob(all_tickets_pattern, fsys.files)]
    /\ UNCHANGED <<argv, cpus, fsys, pc, err, tasks, chain, now, stdout, outfile, exitCode>>

\* The handler of lines 57-61: with the repo linker the ticket files are
\* the link inputs.
pass_ticket_files(i) ==
    /\ runs[i].pc = "ticket_files"
    /\ is_repo_linker
    /\ runs' = [runs EXCEPT ![i].pc = "ld_inputs", ![i].ld_inputs = runs[i].ticket_files]
    /\ UNCHANGED <<argv, cpus, fsys, pc, err, tasks, chain, now, stdout, outfile, exitCode>>

\* start never set by Date.now (): it keeps the value it had.
StartTimeUnset(i) == runs[i].start

\* const start = Date.now ()  (line 72)
StartTime(i) == now

(***************************************************************************)
(* The conversion step (lines 63-69), taken when is_repo_linker is false.  *)
(* async.mapLimit (coll, limit, iteratee) calls the iteratee on the first  *)
(* limit elements at once and on the next element each time one finishes;  *)
(* it stores each result at the index of its element; its promise is       *)
(* fulfilled with the results when every element has finished and is       *)
(* rejected by the first error, after which no further element is started  *)
(* and what the running ones report is ignored.                            *)
(***************************************************************************)
\* const elf_file = ticket_file + '.elf'
elf_file(ticket_file) == File(ticket_file.stem, ticket_file.suffix \o ".elf")

Waiting == [state |-> "waiting", starts |-> 0]

\* The indices the iteratee is called on when mapLimit is called.
FirstStartedAll(n, limit) == 1..n

FirstStarted(n, limit) == {k \in 1..n : k <= limit}

\* The conversions of a run that are in flight.
Running(conv) == {k \in 1..Len(conv) : conv[k].state = "running"}

\* replenish: the next element is started if one is waiting.
Replenish(conv) ==
    LET waiting == {k \in 1..Len(conv) : conv[k].state = "waiting"}
    IN  IF waiting = {} THEN conv
        ELSE LET k == CHOOSE x \in waiting : \A y \in waiting : x <= y
             IN  [conv EXCEPT ![k] = [state |-> "running", starts |-> conv[k].starts + 1]]

\* mapLimit went on starting elements after an error.
ReplenishAfterError(conv) == Replenish(conv)

\* replenish once an error was reported: done is set, nothing is started.
ReplenishStopped(conv) == conv

\* results[index] = v
StoreResult(results, k, v) == [results EXCEPT ![k] = v]

RECURSIVE Repeat(_, _)
Repeat(x, n) == IF n <= 0 THEN <<>> ELSE <<x>> \o Repeat(x, n - 1)

\* The handler of lines 57-70 without the repo linker: mapLimit is called
\* and starts the first conversions.
convert_start(i) ==
    /\ runs[i].pc = "ticket_files"
    /\ LET n == Len(runs[i].ticket_files)
           started == FirstStarted(n, cpus)
       IN runs' = IF n = 0
                  THEN [runs EXCEPT ![i].pc = "ld_inputs", ![i].limit = cpus]
                  ELSE [runs EXCEPT
                          ![i].pc = "convert",
                          ![i].limit = cpus,
                          ![i].results = [k \in 1..n |-> NoFile],
                          ![i].conv = [k \in 1..n |->
                                         IF k \in started
                                         THEN [state |-> "running", starts |-> 1]
                                         ELSE Waiting],
                          ![i].calls = @ \o Repeat("repo2obj", Cardinality(started))]
    /\ UNCHANGED <<argv, cpus, fsys, pc, err, tasks, chain, now, stdout, outfile, exitCode>>

ConversionError(i, k) == Error("repo2obj " \o ToString(k), i)

\* r.repo2obj of element k completes and calls back (lines 66-68).
convert_done(i, k) ==
    /\ k \in Running(runs[i].conv)
    /\ LET run == runs[i]
           file == elf_file(run.ticket_files[k])
           settled == run.pc # "convert"   \* mapLimit's promise is settled
       IN \/ \* callback (null, elf_file)
             LET results == StoreResult(run.results, k, file)
                 finished == [run.conv EXCEPT ![k].state = "done"]
                 conv == IF settled THEN ReplenishStopped(finished) ELSE Replenish(finished)
                 all_done == \A j \in 1..Len(conv) : conv[j].state = "done"
             IN /\ fsys' = [fsys EXCEPT !.files = @ \cup {file}]
                /\ runs' = [runs EXCEPT
                      ![i].results = results,
                      ![i].conv = conv,
                      ![i].wrote = @ \cup {file},
                      ![i].calls = @ \o Repeat("repo2obj",
                                       Cardinality(Running(conv)) - Cardinality(Running(finished))),
                      ![i].pc = IF ~settled /\ all_done THEN "ld_inputs" ELSE @,
                      ![i].ld_inputs = IF ~settled /\ all_done THEN results ELSE @]
          \/ \* callback (err)
             /\ fsys' = fsys
             /\ runs' = [runs EXCEPT
                   ![i].conv = ReplenishStopped([run.conv EXCEPT ![k].state = "failed"]),
                   ![i].pc = IF settled THEN @ ELSE "rejected",
                   ![i].reported = IF settled THEN @ ELSE ConversionError(i, k),
                   ![i].err = IF settled THEN @ ELSE ConversionError(i, k)]
    /\ UNCHANGED <<argv, cpus, pc, err, tasks, chain, now, stdout, outfile, exitCode>>

\* The handler of lines 71-73: takes the start time and starts the linker.
link_start(i) ==
    /\ runs[i].pc = "ld_inputs"
    /\ runs' = [runs EXCEPT ![i].pc = "link", ![i].start = StartTime(i),
                            ![i].calls = Append(@, "link")]
    /\ UNCHANGED <<argv, cpus, fsys, pc, err, tasks, chain, now, stdout, outfile, exitCode>>

\* .catch (err => { throw new Error (...); })
RethrowWrapped(e) == Error("link failed", e.task)

\* .catch (err => { throw err; })  (line 75)
Rethrow(e) == e

\* The linker has written its output and left the files of the run.
LinkedFilesRemoved(files) == {f \in files : f.suffix \notin {"o", "o.elf"} /\ f # RepoFile}
                                \cup {LinkedOutput}

\* The work directory after a successful link: a.out is added.
Linked(files) == files \cup {LinkedOutput}

\* The linker completes: line 74 on success, line 75 on failure.
link_done(i) ==
    /\ runs[i].pc = "link"
    /\ \/ /\ fsys' = [fsys EXCEPT !.files = Linked(@)]
          /\ runs' = [runs EXCEPT ![i].pc = "resolved", ![i].time = now - runs[i].start,
                                  ![i].wrote = @ \cup {LinkedOutput}]
       \/ /\ fsys' = fsys
          /\ runs' = [runs EXCEPT ![i].pc = "rejected",
                                  ![i].reported = Error("linker", i),
                                  ![i].err = Rethrow(Error("linker", i))]
    /\ UNCHANGED <<argv, cpus, pc, err, tasks, chain, now, stdout, outfile, exitCode>>

(***************************************************************************)
(* The task's promise settles (lines 153 and 110).                         *)
(***************************************************************************)
\* [num_external, num_linkonce, time]
TaskResult(i) == <<tasks[i].external, tasks[i].linkonce, runs[i].time>>

task_resolved(i) ==
    /\ runs[i].pc = "resolved"
    /\ chain[i].state = "fulfilled"
    /\ chain[i + 1].state = "pending"
    /\ chain' = [chain EXCEPT ![i + 1] = Resolved(ChainResults(chain[i].value, TaskResult(i)))]
    /\ UNCHANGED <<argv, cpus, fsys, pc, err, tasks, runs, now, stdout, outfile, exitCode>>

task_rejected(i) ==
    /\ runs[i].pc = "rejected"
    /\ chain[i].state = "fulfilled"
    /\ chain[i + 1].state = "pending"
    /\ chain' = [chain EXCEPT ![i + 1] = ItemRejected(chain[i].value, runs[i].err)]
    /\ UNCHANGED <<argv, cpus, fsys, pc, err, tasks, runs, now, stdout, outfile, exitCode>>

\* promise_chain.then (cb) with promise_chain rejected: cb is not called
\* and the rejection is passed on.
chain_rejected(i) ==
    /\ chain[i].state = "rejected"
    /\ chain[i + 1].state = "pending"
    /\ chain' = [chain EXCEPT ![i + 1] = Rejected(chain[i].err)]
    /\ UNCHANGED <<argv, cpus, fsys, pc, err, tasks, runs, now, stdout, outfile, exitCode>>

(***************************************************************************)
(* main, lines 156-176: the output and the top-level handler.              *)
(***************************************************************************)
SweepPromise == chain[NumTasks]

\* The handler of line 156 attached so that it runs on rejection as well.
CanWriteOnceSettled == SweepPromise.state # "pending"

\* The handler of line 156 runs once serialize_tasks' promise is fulfilled.
CanWrite == SweepPromise.state = "fulfilled"

\* inner.join (' ') + '\n'
RECURSIVE Join(_)
Join(inner) ==
    IF Len(inner) = 0 THEN ""
    ELSE IF Len(inner) = 1 THEN ToString(inner[1])
    ELSE ToString(inner[1]) \o " " \o Join(Tail(inner))

\* results.reduceRight ((acc, inner) => acc + inner.join (' ') + '\n', '')
RECURSIVE FlattenReversed(_)
FlattenReversed(results) ==
    IF Len(results) = 0 THEN ""
    ELSE FlattenReversed(Tail(results)) \o Join(Head(results)) \o "\n"

\* results.reduce ((acc, inner) => acc + inner.join (' ') + '\n', '')
RECURSIVE Flatten(_)
Flatten(results) ==
    IF Len(results) = 0 THEN ""
    ELSE Flatten(SubSeq(results, 1, Len(results) - 1))
            \o Join(results[Len(results)]) \o "\n"

OutputText(results) == "external linkonce time\n" \o Flatten(results)

\* Lines 156-167: the text is written to stdout, or fs.writeFile is started.
main_write ==
    /\ pc = "sweep"
    /\ CanWrite
    /\ IF argv.output = "-"
       THEN /\ stdout' = Append(stdout, OutputText(SweepPromise.value))
            /\ pc' = "done"
       ELSE /\ stdout' = stdout
            /\ pc' = "writing"
    /\ UNCHANGED <<argv, cpus, fsys, err, tasks, chain, runs, now, outfile, exitCode>>

\* The catch of line 169 attached before the handler of line 156: a failing
\* write is caught by nothing.
WriteRejectedUncaught == "done"

\* Where main's chain goes when the promise of fs.writeFile is rejected: to
\* the catch of line 169.
WriteRejected == "catch"

\* fs.writeFile completes.
write_done ==
    /\ pc = "writing"
    /\ \/ /\ outfile' = Append(outfile, OutputText(SweepPromise.value))
          /\ pc' = "done"
          /\ err' = err
       \/ /\ outfile' = outfile
          /\ pc' = WriteRejected
          /\ err' = Error("writeFile", -1)
    /\ UNCHANGED <<argv, cpus, fsys, tasks, chain, runs, now, stdout, exitCode>>

\* serialize_tasks' promise is rejected: the handler of line 156 is skipped.
sweep_rejected ==
    /\ pc = "sweep"
    /\ SweepPromise.state = "rejected"
    /\ pc' = "catch"
    /\ err' = SweepPromise.err
    /\ UNCHANGED <<argv, cpus, fsys, tasks, chain, runs, now, stdout, outfile, exitCode>>

\* The handler of lines 169-176.
main_catch ==
    /\ pc = "catch"
    /\ exitCode' = 1
    /\ pc' = "failed"
    /\ UNCHANGED <<argv, cpus, fsys, err, tasks, chain, runs, now, stdout, outfile>>

\* Time passes while the process waits.
Tick ==
    /\ pc \notin {"done", "failed"}
    /\ now < MaxClock
    /\ now' = now + 1
    /\ runs' = [i \in DOMAIN runs |->
                  IF runs[i].pc = "link"
                  THEN [runs[i] EXCEPT !.link_ticks = @ + 1]
                  ELSE runs[i]]
    /\ UNCHANGED <<argv, cpus, fsys, pc, err, tasks, chain, stdout, outfile, exitCode>>

Next ==
    \/ check_work_directory_stat
    \/ check_work_directory_readdir
    \/ main_build_tasks
    \/ \E i \in TaskIds : invoke_task(i)
    \/ \E i \in TaskIds : clean_glob(i)
    \/ \E i \in TaskIds : clean_unlink(i)
    \/ \E i \in TaskIds : rld_gen_done(i)
    \/ \E i \in TaskIds : glob_tickets(i)
    \/ \E i \in TaskIds : pass_ticket_files(i)
    \/ \E i \in TaskIds : link_start(i)
    \/ \E i \in TaskIds : link_done(i)
    \/ \E i \in TaskIds : task_resolved(i)
    \/ \E i \in TaskIds : task_rejected(i)
    \/ \E i \in TaskIds : chain_rejected(i)
    \/ main_write
    \/ write_done
    \/ sweep_rejected
    \/ main_catch
    \/ Tick

Spec == Init /\ [][Next]_vars

\* Every step of the program: a completion of a filesystem operation or of a
\* tool, or a handler of a settled promise.
Progress ==
    \/ check_work_directory_stat
    \/ check_work_directory_readdir
    \/ main_build_tasks
    \/ \E i \in TaskIds : invoke_task(i)
    \/ \E i \in TaskIds : clean_glob(i)
    \/ \E i \in TaskIds : clean_unlink(i)
    \/ \E i \in TaskIds : rld_gen_done(i)
    \/ \E i \in TaskIds : glob_tickets(i)
    \/ \E i \in TaskIds : pass_ticket_files(i)
    \/ \E i \in TaskIds : link_start(i)
    \/ \E i \in TaskIds : link_done(i)
    \/ \E i \in TaskIds : task_resolved(i)
    \/ \E i \in TaskIds : task_rejected(i)
    \/ \E i \in TaskIds : chain_rejected(i)
    \/ main_write
    \/ write_done
    \/ sweep_rejected
    \/ main_catch

\* Every filesystem operation and every tool invocation eventually
\* completes, and the event loop runs every handler that is ready.
SpecFair == Spec /\ WF_vars(Progress)

\* The program built with is_repo_linker = false: the handler of lines 57-70
\* starts the conversions instead of passing the ticket files on.
NextLld ==
    \/ check_work_directory_stat
    \/ check_work_directory_readdir
    \/ main_build_tasks
    \/ \E i \in TaskIds : invoke_task(i)
    \/ \E i \in TaskIds : clean_glob(i)
    \/ \E i \in TaskIds : clean_unlink(i)
    \/ \E i \in TaskIds : rld_gen_done(i)
    \/ \E i \in TaskIds : glob_tickets(i)
    \/ \E i \in TaskIds : convert_start(i)
    \/ \E i \in TaskIds : \E k \in 1..Len(runs[i].conv) : convert_done(i, k)
    \/ \E i \in TaskIds : link_start(i)
    \/ \E i \in TaskIds : link_done(i)
    \/ \E i \in TaskIds : task_resolved(i)
    \/ \E i \in TaskIds : task_rejected(i)
    \/ \E i \in TaskIds : chain_rejected(i)
    \/ main_write
    \/ write_done
    \/ sweep_rejected
    \/ main_catch
    \/ Tick

SpecLld == InitLld /\ [][NextLld]_vars

(***************************************************************************)
(* clean_all (lines 31-39) called twice in a row on a directory, the       *)
(* second call once the first has settled.  A call that has resolved is at *)
(* pc "rld_gen", where single_run would go on.                             *)
(***************************************************************************)
CleanUniverse ==
    {File(7, "o"), File(8, "o"), File(7, "o.elf"), File(9, "o.elf"), RepoFile, Notes}

InitClean ==
    /\ argv = [external |-> 1, linkonce |-> 1, increment |-> 1, modules |-> 1,
               force |-> TRUE, output |-> "-"]
    /\ cpus = 1
    /\ fsys \in [kind : {"dir"}, files : SUBSET CleanUniverse]
    /\ pc = "sweep"
    /\ err = NoError
    /\ tasks = [i \in {0, 1} |-> [external |-> 1, linkonce |-> 1]]
    /\ chain = [i \in {0, 1, 2} |-> Pending]
    /\ runs = [i \in {0, 1} |-> IdleRun]
    /\ now = 0
    /\ stdout = <<>>
    /\ outfile = <<>>
    /\ exitCode = 0

Settled(i) == runs[i].pc \in {"rld_gen", "rejected"}

\* clean_all (work_dir, repo_name) is called: its first glob is started.
clean_all(i) ==
    /\ runs[i].pc = "idle"
    /\ i > 0 => Settled(i - 1)
    /\ runs' = [runs EXCEPT ![i].pc = "clean_glob", ![i].step = 1,
                            ![i].entered = fsys.files]
    /\ UNCHANGED <<argv, cpus, fsys, pc, err, tasks, chain, now, stdout, outfile, exitCode>>

NextClean ==
    \/ \E i \in TaskIds : clean_all(i)
    \/ \E i \in TaskIds : clean_glob(i)
    \/ \E i \in TaskIds : clean_unlink(i)

SpecClean == InitClean /\ [][NextClean]_vars

\* Another process deletes a file the glob of line 33 has matched before
\* the handler of line 34 reaches it.
external_unlink(i) ==
    /\ runs[i].pc = "clean_unlink"
    /\ \E file \in Range(runs[i].contents) \cap fsys.files :
          /\ ~IsDirectory(file)
          /\ fsys' = [fsys EXCEPT !.files = @ \ {file}]
    /\ UNCHANGED <<argv, cpus, pc, err, tasks, chain, runs, now, stdout, outfile, exitCode>>

NextEnv ==
    \/ Next
    \/ \E i \in TaskIds : external_unlink(i)

\* The program as built, in a work directory other processes delete from.
SpecEnv == Init /\ [][NextEnv]_vars

(***************************************************************************)
(* Properties.                                                             *)
(***************************************************************************)
Built == DOMAIN chain # {}
NoRunStarted == \A i \in DOMAIN runs : runs[i].pc = "idle"
Failed(i) == runs[i].pc = "rejected"
Output == stdout \o outfile

\* C1: task i+1 is not invoked until the promise returned by task i has
\* resolved (and the chain has taken its result), and at most one task is
\* in flight at any moment.
SerialExecution ==
    /\ \A i \in TaskIds : runs[i].pc # "idle" =>
          \A j \in TaskIds : j < i =>
             /\ runs[j].pc = "resolved"
             /\ chain[j + 1].state = "fulfilled"
    /\ Cardinality({i \in TaskIds : InFlight(i)}) <= 1

\* A later task is being linked after an earlier one took a measurable time.
SerialExecutionWitness ==
    \E i \in TaskIds : i >= 1 /\ runs[i].pc = "link" /\ runs[i - 1].time > 0

\* C2: when task k is the first to fail, no task after k is ever invoked,
\* no promise of the chain after k is fulfilled (no partial results), the
\* caller's success handler does not run, and once main has left the sweep
\* the runner's promise is rejected with the error of task k.
FirstFailureStops ==
    \A k \in TaskIds : Failed(k) =>
       /\ \A j \in TaskIds : j > k => runs[j].pc = "idle"
       /\ \A j \in TaskIds : j >= k => chain[j + 1].state # "fulfilled"
       /\ pc \in {"sweep", "catch", "failed"}
       /\ pc # "sweep" => /\ SweepPromise = Rejected(runs[k].err)
                          /\ err = runs[k].err

\* A task that is neither the first nor the last failed and the runner's
\* promise is rejected.
FirstFailureStopsWitness ==
    /\ Built
    /\ SweepPromise.state = "rejected"
    /\ \E k \in TaskIds : k >= 1 /\ k + 1 \in TaskIds /\ Failed(k)

\* C3: when the runner's promise is fulfilled its value has one element per
\* task and element i is the result of task i; when every task has
\* succeeded and main has left the sweep the promise is fulfilled; for the
\* empty list the promise is fulfilled with the empty array.
ResultsInOrder ==
    Built =>
       /\ SweepPromise.state = "fulfilled" =>
             /\ Len(SweepPromise.value) = NumTasks
             /\ \A i \in TaskIds : SweepPromise.value[i + 1] = TaskResult(i)
       /\ (pc # "sweep" /\ \A i \in TaskIds : runs[i].pc = "resolved") =>
             SweepPromise.state = "fulfilled"
       /\ NumTasks = 0 => SweepPromise = Resolved(<<>>)

\* A fulfilled sweep of several tasks that took different times.
ResultsInOrderWitness ==
    /\ Built
    /\ SweepPromise.state = "fulfilled"
    /\ \E i, j \in TaskIds : i < j /\ runs[i].time # runs[j].time

\* C4: when a run of the sweep has failed nothing is written, neither to
\* standard output nor to the output file; what is written is written
\* after every run has succeeded.
NoOutputOnAbort ==
    /\ (\E k \in TaskIds : Failed(k)) => Output = <<>> /\ pc \notin {"writing", "done"}
    /\ (Output # <<>> \/ pc \in {"writing", "done"}) =>
          \A i \in TaskIds : runs[i].pc = "resolved"

\* The process ended after a run failed that earlier runs had preceded.
NoOutputOnAbortWitness ==
    /\ pc = "failed"
    /\ \E k \in TaskIds : k >= 1 /\ Failed(k)

\* C5: the number of tasks built is
\* floor(linkonce_max/increment) * floor(external_max/increment).
GridSizeIsProduct ==
    Built => NumTasks = (argv.linkonce \div argv.increment) * (argv.external \div argv.increment)

\* C6: when external_max < increment or linkonce_max < increment the grid
\* is empty, no single_run is started, and the output is the header alone.
EmptyGridBelowIncrement ==
    (Built /\ (argv.external < argv.increment \/ argv.linkonce < argv.increment)) =>
       /\ NumTasks = 0
       /\ NoRunStarted
       /\ pc = "done" => Output = <<"external linkonce time\n">>

\* C7: when both maxima are multiples of increment the grid is the cross
\* product of {increment, ..., external_max} and {increment, ...,
\* linkonce_max} in row-major order, linkonce varying fastest.
GridIsRowMajorCrossProduct ==
    (Built /\ argv.external % argv.increment = 0 /\ argv.linkonce % argv.increment = 0) =>
       LET ne == argv.external \div argv.increment
           nl == argv.linkonce \div argv.increment
       IN /\ TaskIds = 0..(ne * nl - 1)
          /\ \A e \in 1..ne : \A l \in 1..nl :
                tasks[(e - 1) * nl + (l - 1)]
                   = [external |-> e * argv.increment, linkonce |-> l * argv.increment]

\* A grid with several external and several linkonce values.
GridIsRowMajorCrossProductWitness ==
    /\ Built
    /\ argv.external % argv.increment = 0
    /\ argv.linkonce % argv.increment = 0
    /\ argv.external \div argv.increment >= 2
    /\ argv.linkonce \div argv.increment >= 2

\* C8: every grid point has counts that are positive multiples of
\* increment, at most external_max and linkonce_max.
GridPointsWithinBounds ==
    \A i \in TaskIds :
       /\ tasks[i].external > 0 /\ tasks[i].external % argv.increment = 0
       /\ tasks[i].linkonce > 0 /\ tasks[i].linkonce % argv.increment = 0
       /\ tasks[i].external <= argv.external
       /\ tasks[i].linkonce <= argv.linkonce

\* C9: no run starts unless check_work_directory has succeeded: with a work
\* directory that is missing or not a directory, or that is non-empty
\* without force, no task is built or invoked and the process fails.
NoRunUnlessChecked ==
    /\ fsys.kind # "dir" => ~Built /\ pc \in {"stat", "catch", "failed"}
    /\ (~argv.force /\ fsys.files # {} /\ NoRunStarted) =>
          ~Built /\ pc \in {"stat", "readdir", "catch", "failed"}
    /\ ~NoRunStarted => fsys.kind = "dir"

\* The process failed on a non-empty work directory without force.
NoRunUnlessCheckedWitness ==
    /\ pc = "failed"
    /\ exitCode = 1
    /\ fsys.kind = "dir" /\ fsys.files # {} /\ ~argv.force

\* A ticket file, converted object or the repository database.
IsArtifact(f) == f.suffix \in {"o", "o.elf"} \/ f = RepoFile
Artifacts == {f \in fsys.files : IsArtifact(f)}

\* C10 as stated, for the runs after the first: before any step of
\* single_run begins, the cleaning step included, the work directory holds
\* no artifact.
NoArtifactsBeforeAnyStep ==
    \A i \in TaskIds :
       (i >= 1 /\ runs[i].pc = "clean_glob" /\ runs[i].step = 1) => Artifacts = {}

\* C10, amended: before any step of single_run after the cleaning step
\* begins, the work directory holds no artifact left over from a previous
\* run: none at all when the generator starts, and only the files of this
\* run's generator afterwards.
NoArtifactsAfterCleaning ==
    \A i \in TaskIds :
       /\ runs[i].pc = "rld_gen" => Artifacts = {}
       /\ runs[i].pc \in {"glob", "ticket_files", "ld_inputs", "link"} =>
             Artifacts = GeneratedTickets(argv.modules) \cup {RepoFile}

\* The generator of a run after the first is about to run.
NoArtifactsAfterCleaningWitness ==
    \E i \in TaskIds : i >= 1 /\ runs[i].pc = "rld_gen"

RECURSIVE ExpectedRows(_)
ExpectedRows(i) ==
    IF i \notin TaskIds THEN ""
    ELSE ToString(tasks[i].external) \o " " \o ToString(tasks[i].linkonce) \o " "
            \o ToString(runs[i].time) \o "\n" \o ExpectedRows(i + 1)

\* C11: what is written is written once, after every link step succeeded:
\* the header line followed by one row per grid point in grid order, row i
\* being '<external_i> <linkonce_i> <elapsed_i>'.
OutputIsTheTable ==
    /\ pc = "done" => Len(Output) = 1
    /\ Output # <<>> =>
          /\ Output = <<"external linkonce time\n" \o ExpectedRows(0)>>
          /\ \A i \in TaskIds : runs[i].pc = "resolved" /\ runs[i].calls[Len(runs[i].calls)] = "link"

\* A written table of several rows with different times.
OutputIsTheTableWitness ==
    /\ pc = "done"
    /\ \E i, j \in TaskIds : i < j /\ runs[i].time # runs[j].time

\* C13: the exit code is set to 1 by every failure that reaches the
\* top-level handler (validation, a tool of a run, the output write), and
\* the process ends with exit code 0 exactly when validation, every run and
\* the write succeeded.
ExitCodeReflectsFailure ==
    /\ pc = "failed" => exitCode = 1 /\ err # NoError
    /\ pc = "catch" => err # NoError
    /\ exitCode # 0 => pc = "failed"
    /\ pc = "done" =>
          /\ exitCode = 0
          /\ fsys.kind = "dir"
          /\ \A i \in TaskIds : runs[i].pc = "resolved"
          /\ Len(Output) = 1
    /\ (err # NoError \/ \E k \in TaskIds : Failed(k)) => pc # "done"

\* The process failed because the output could not be written.
ExitCodeReflectsFailureWitness ==
    /\ pc = "failed"
    /\ exitCode = 1
    /\ err.kind = "writeFile"

Count(calls, op) == Cardinality({n \in 1..Len(calls) : calls[n] = op})
IsPrefix(s, t) == Len(s) <= Len(t) /\ \A n \in 1..Len(s) : s[n] = t[n]
ConversionFailed(i) ==
    Failed(i) /\ \E k \in 1..Len(runs[i].conv) : runs[i].reported = ConversionError(i, k)
ToolFailed(i) ==
    Failed(i) /\ (runs[i].reported.kind \in {"rld_gen", "linker"} \/ ConversionFailed(i))

\* C12: when the generator, a conversion or the linker fails in run k, no
\* tool is invoked a second time, no later step of the run is started (the
\* linker is not invoked after a generator or conversion failure), no later
\* run is started, and the error that reaches main's top-level handler is
\* the error the failing tool reported.
ToolFailureAborts ==
    \A k \in TaskIds : ToolFailed(k) =>
       LET run == runs[k]
           last == run.calls[Len(run.calls)]
       IN /\ Count(run.calls, "rld_gen") = 1
          /\ Count(run.calls, "link") <= 1
          /\ \A c \in 1..Len(run.conv) : run.conv[c].starts <= 1
          /\ run.reported.kind = "rld_gen" =>
                last = "rld_gen" /\ run.ticket_files = <<>> /\ run.conv = <<>>
          /\ ConversionFailed(k) => last = "repo2obj" /\ run.ld_inputs = <<>>
          /\ run.reported.kind = "linker" => last = "link"
          /\ \A j \in TaskIds : j > k => runs[j].pc = "idle" /\ runs[j].calls = <<>>
          /\ pc \in {"sweep", "catch", "failed"}
          /\ pc \in {"catch", "failed"} => err = run.reported

\* The process failed with the error of a failed linker of a later run.
ToolFailureAbortsWitness ==
    /\ pc = "failed"
    /\ \E k \in TaskIds : k >= 1 /\ runs[k].reported.kind = "linker" /\ err = runs[k].reported

StepsOf(run) ==
    <<"clean_all", "rld_gen", "glob">> \o Repeat("repo2obj", Len(run.conv)) \o <<"link">>

\* C14: the steps of a run are started in the order clean, generate,
\* enumerate, convert, link, each after the one before it has completed, and
\* the time a run returns is the time that passed while its linker ran.
StepsInOrder ==
    \A i \in TaskIds :
       LET run == runs[i]
       IN /\ IsPrefix(run.calls, StepsOf(run))
          /\ run.pc = "rld_gen" => run.step = Len(CleanPatterns) /\ run.contents = <<>>
          /\ Count(run.calls, "glob") = 1 =>
                GeneratedTickets(argv.modules) \cup {RepoFile} \subseteq run.wrote
          /\ Count(run.calls, "repo2obj") > 0 => Len(run.ticket_files) = Len(run.conv)
          /\ Count(run.calls, "link") = 1 =>
                /\ Running(run.conv) = {}
                /\ \A k \in 1..Len(run.conv) : run.conv[k].state = "done"
                /\ Len(run.ld_inputs) = Len(run.ticket_files)
          /\ run.pc = "link" => run.start = now - run.link_ticks
          /\ run.pc = "resolved" => run.time = run.link_ticks

\* A run with conversions measured no time although time had passed before
\* its linker was started.
StepsInOrderWitness ==
    \E i \in TaskIds :
       /\ runs[i].pc = "resolved"
       /\ Len(runs[i].conv) >= 2
       /\ runs[i].start > 0
       /\ runs[i].time = 0

\* C15: without the repo linker at most cpu_count conversions are in flight
\* at any moment, every enumerated ticket file is converted exactly once,
\* the linker is not invoked until all conversions have finished, and the
\* link inputs are the converted files in the order of the ticket files.
BoundedConversion ==
    \A i \in TaskIds :
       LET run == runs[i]
       IN /\ Cardinality(Running(run.conv)) <= cpus
          /\ \A k \in 1..Len(run.conv) : run.conv[k].starts <= 1
          /\ Count(run.calls, "repo2obj")
                = Cardinality({k \in 1..Len(run.conv) : run.conv[k].starts = 1})
          /\ (Count(run.calls, "glob") = 1 /\ run.pc \in {"ld_inputs", "link", "resolved", "rejected"}
                /\ ~ConversionFailed(i)) =>
                /\ Len(run.conv) = Len(run.ticket_files)
                /\ Range(run.ticket_files) = GeneratedTickets(argv.modules)
                /\ \A k \in 1..Len(run.conv) :
                      run.conv[k] = [state |-> "done", starts |-> 1]
                /\ run.ld_inputs = [k \in 1..Len(run.ticket_files) |-> elf_file(run.ticket_files[k])]
          /\ run.pc = "link" =>
                Running(run.conv) = {} /\ Range(run.ld_inputs) \subseteq fsys.files

\* The linker runs on several converted files on a host with fewer CPUs
\* than ticket files.
BoundedConversionWitness ==
    \E i \in TaskIds :
       /\ runs[i].pc = "link"
       /\ Len(runs[i].ld_inputs) >= 2
       /\ cpus < Len(runs[i].ld_inputs)

\* C16: once a conversion has failed no conversion is started any more, what
\* the conversions in flight report changes nothing, the run stays rejected
\* with the first failure, and the linker is not invoked.
ConversionFailureAborts ==
    [][\A i \in TaskIds :
          /\ ConversionFailed(i) =>
                /\ \A k \in 1..Len(runs[i].conv) : runs'[i].conv[k].starts = runs[i].conv[k].starts
                /\ runs'[i].pc = "rejected"
                /\ runs'[i].err = runs[i].err
                /\ runs'[i].ld_inputs = <<>>
                /\ runs'[i].calls = runs[i].calls
                /\ Count(runs[i].calls, "link") = 0
          /\ \A k \in 1..Len(runs[i].conv) :
                (runs[i].pc = "convert" /\ runs'[i].conv[k].state = "failed"
                    /\ runs[i].conv[k].state # "failed") =>
                   /\ runs'[i].pc = "rejected"
                   /\ runs'[i].err = ConversionError(i, k)
                   /\ \A j \in 1..Len(runs[i].conv) :
                         runs'[i].conv[j].starts = runs[i].conv[j].starts
    ]_vars

\* The process has ended after a failed conversion, with a ticket file whose
\* conversion was never started.
ConversionFailureAbortsWitness ==
    /\ pc = "failed"
    /\ \E i \in TaskIds :
          /\ ConversionFailed(i)
          /\ \E k \in 1..Len(runs[i].conv) : runs[i].conv[k] = Waiting

\* C17: a file matched by a cleanup glob that no longer exists when its
\* deletion is attempted does not make clean_all fail: no run is rejected
\* with ENOENT.
MissingFileNeverFatal ==
    \A i \in TaskIds : runs[i].reported.kind # "ENOENT"

\* The entries of a directory the patterns of clean_all match.
Matched(files) ==
    {f \in files : \E n \in 1..Len(CleanPatterns) : Matches(CleanPatterns[n], f)}

\* C18 as stated: from any starting directory clean_all succeeds, the first
\* time and the second.
CleanSucceedsTwice ==
    \A i \in TaskIds : runs[i].pc # "rejected"

\* C18, amended: on a directory without a matching entry clean_all succeeds
\* and changes nothing; it succeeds exactly when no matching entry is a
\* directory, and then it leaves the entries that match no pattern; a second
\* call after a successful first one succeeds and changes nothing.
CleanIsIdempotent ==
    \A i \in TaskIds :
       LET run == runs[i]
           matched == Matched(run.entered)
       IN /\ (run.pc # "idle" /\ matched = {}) =>
                fsys.files = run.entered /\ run.pc # "rejected"
          /\ run.pc = "rejected" => \E f \in matched : IsDirectory(f)
          /\ run.pc = "rld_gen" =>
                /\ \A f \in matched : ~IsDirectory(f)
                /\ (i = 0 /\ runs[1].pc = "idle") => fsys.files = run.entered \ matched
                /\ i = 1 => fsys.files = run.entered
          /\ (i = 1 /\ run.pc # "idle" /\ runs[0].pc = "rld_gen") =>
                /\ run.entered = runs[0].entered \ Matched(runs[0].entered)
                /\ fsys.files = run.entered
                /\ run.pc # "rejected"

\* The first call deleted files of every pattern and the second call has
\* succeeded.
CleanIsIdempotentWitness ==
    /\ runs[1].pc = "rld_gen"
    /\ {File(7, "o"), File(7, "o.elf"), RepoFile, Notes} \subseteq runs[0].entered
    /\ fsys.files = {Notes}

Started == {i \in TaskIds : runs[i].pc # "idle"}
LastStarted == CHOOSE i \in Started : \A j \in Started : j <= i
ArtifactsOf(i) == {f \in runs[i].wrote : IsArtifact(f)}

\* The artifacts in the work directory are those of the last started run,
\* once its cleaning is complete.
ArtifactsAreTheLastRuns ==
    (Started # {} /\ Count(runs[LastStarted].calls, "rld_gen") = 1) =>
       Artifacts = ArtifactsOf(LastStarted)

Terminated == pc \in {"done", "failed"}
ToolInFlight(i) == runs[i].pc \in {"rld_gen", "convert", "link"}

\* C20: when every filesystem operation and every tool invocation
\* eventually completes the sweep eventually terminates; it terminates
\* either with the output written once and exit code 0 or with no output
\* and exit code 1; and while a tool invocation has not completed the sweep
\* has not terminated and no later run has been started.
SweepTerminates ==
    /\ <>Terminated
    /\ [](pc = "done" => Len(Output) = 1 /\ exitCode = 0)
    /\ [](pc = "failed" => Output = <<>> /\ exitCode = 1)
    /\ [](\A i \in TaskIds :
             ToolInFlight(i) =>
                /\ ~Terminated
                /\ \A j \in TaskIds : j > i => runs[j].pc = "idle")

\* A sweep of several runs has terminated with its output written.
SweepTerminatesWitness ==
    /\ pc = "done"
    /\ NumTasks >= 2
    /\ \A i \in TaskIds : runs[i].pc = "resolved"
    /\ Len(Output) = 1
    /\ exitCode = 0

====
